---- MODULE Spec2Model ----
(***************************************************************************)
(* Model of the Common Log Format parser of src/src/lib.rs.                *)
(*                                                                         *)
(* A text (&str) is a sequence of one-character strings.  Offsets are      *)
(* 0-based byte offsets as in Rust; every character of the model is ASCII, *)
(* so byte offsets and character positions coincide.  Option<T> is a       *)
(* sequence of length at most one: None is << >>, Some(v) is <<v>>.        *)
(***************************************************************************)
EXTENDS Integers, Sequences, FiniteSets, TLC

(***************************************************************************)
(* Option and Result values                                                *)
(***************************************************************************)
None == << >>

Some(v) == <<v>>

\* Result<(Option<V>, &str), LogEntryParseError> of a peeler; "panic" is the
\* abort of unreachable!().
PeelOk(v, r) == [kind |-> "ok", val |-> v, rem |-> r, err |-> "none"]

PeelErr(e) == [kind |-> "err", val |-> None, rem |-> << >>, err |-> e]

PeelPanic == [kind |-> "panic", val |-> None, rem |-> << >>, err |-> "none"]

\* The five kinds of LogEntryParseError (payloads are not modelled).
LogEntryParseError ==
  {"FieldNotFound", "IpAddrParse", "DateTimeParse", "StatusCodeParse", "SizeParse"}

(***************************************************************************)
(* str primitives used by the peelers                                      *)
(***************************************************************************)
\* char::is_whitespace restricted to the characters of the model.
IsWhitespace(c) == c \in {" ", "\t", "\n"}

\* str::find(ch): offset of the first occurrence, as an Option.
find(s, ch) ==
  IF \E i \in 1..Len(s) : s[i] = ch
  THEN Some((CHOOSE i \in 1..Len(s) : s[i] = ch /\ \A j \in 1..(i - 1) : s[j] # ch) - 1)
  ELSE None

\* Option::unwrap_or
unwrap_or(o, d) == IF o = None THEN d ELSE o[1]

\* s[from..]
SliceFrom(s, from) == SubSeq(s, from + 1, Len(s))

\* s[..to]
SliceTo(s, to) == SubSeq(s, 1, to)

\* s[from..to]
Slice(s, from, to) == SubSeq(s, from + 1, to)

\* str::trim_start: drop every leading whitespace character.
trim_start(s) ==
  IF \A i \in 1..Len(s) : IsWhitespace(s[i])
  THEN << >>
  ELSE SubSeq(s, CHOOSE i \in 1..Len(s) :
                   ~IsWhitespace(s[i]) /\ \A j \in 1..(i - 1) : IsWhitespace(s[j]),
              Len(s))

(***************************************************************************)
(* Library parsers: decimal numbers, IpAddr, StatusCode, DateTime          *)
(***************************************************************************)
Digits == <<"0", "1", "2", "3", "4", "5", "6", "7", "8", "9">>

IsDigit(c) == \E i \in 1..10 : Digits[i] = c

DigitVal(c) == (CHOOSE i \in 1..10 : Digits[i] = c) - 1

AllDigits(s) == \A i \in 1..Len(s) : IsDigit(s[i])

RECURSIVE DecVal(_)
\* value of a non-empty string of decimal digits
DecVal(s) ==
  IF Len(s) = 0 THEN 0
  ELSE 10 * DecVal(SubSeq(s, 1, Len(s) - 1)) + DigitVal(s[Len(s)])

RECURSIVE DecText(_)
\* decimal text of a natural number (Display for integers)
DecText(n) ==
  IF n < 10 THEN <<Digits[n + 1]>>
  ELSE Append(DecText(n \div 10), Digits[(n % 10) + 1])

\* <usize as FromStr>::from_str: an optional '+', then at least one digit.
\* Returns Some(n) or None for a ParseIntError.
ParseUsize(s) ==
  LET body == IF Len(s) > 0 /\ s[1] = "+" THEN Tail(s) ELSE s
  IN IF Len(body) > 0 /\ AllDigits(body) THEN Some(DecVal(body)) ELSE None

\* Range accepted by StatusCode::from_u16.
MinStatusCode == 100

MaxStatusCode == 999

\* StatusCode::from_u16: Some(code) or None for InvalidStatusCode.
StatusCodeFromU16(n) ==
  IF n >= MinStatusCode /\ n <= MaxStatusCode THEN Some(n) ELSE None

\* <StatusCode as FromStr>::from_str: exactly three digits, the first one not
\* '0'.  Some(code) or None for InvalidStatusCode.
ParseStatusCode(s) ==
  IF Len(s) = 3 /\ AllDigits(s) /\ s[1] # "0" THEN Some(DecVal(s)) ELSE None

RECURSIVE SplitOn(_, _)
\* str::split(ch) collected into a sequence of texts
SplitOn(s, ch) ==
  LET i == find(s, ch)
  IN IF i = None THEN <<s>>
     ELSE <<SliceTo(s, i[1])>> \o SplitOn(SliceFrom(s, i[1] + 1), ch)

\* One octet of dotted-decimal notation: 1 to 3 digits, no leading zero,
\* at most 255.
IsOctet(p) ==
  /\ Len(p) \in 1..3
  /\ AllDigits(p)
  /\ (Len(p) > 1 => p[1] # "0")
  /\ DecVal(p) <= 255

\* <IpAddr as FromStr>::from_str for the dotted-decimal (V4) form; the
\* colon-hex form is not part of the model's input universe.
\* Some(<<a, b, c, d>>) or None for an AddrParseError.
ParseIpAddr(s) ==
  LET parts == SplitOn(s, ".")
  IN IF Len(parts) = 4 /\ \A i \in 1..4 : IsOctet(parts[i])
     THEN Some([i \in 1..4 |-> DecVal(parts[i])])
     ELSE None

\* Display for IpAddr (V4)
IpText(ip) ==
  DecText(ip[1]) \o <<".">> \o DecText(ip[2]) \o <<".">> \o DecText(ip[3])
    \o <<".">> \o DecText(ip[4])

\* Days from 1970-01-01 to the civil date y-m-d (proleptic Gregorian).
DaysFromCivil(y, m, d) ==
  LET yy == IF m <= 2 THEN y - 1 ELSE y
      era == yy \div 400
      yoe == yy - era * 400
      mp == IF m > 2 THEN m - 3 ELSE m + 9
      doy == (153 * mp + 2) \div 5 + d - 1
      doe == yoe * 365 + yoe \div 4 - yoe \div 100 + doy
  IN era * 146097 + doe - 719468

\* Civil date <<y, m, d>> of a day number counted from 1970-01-01.
CivilFromDays(days) ==
  LET z == days + 719468
      era == z \div 146097
      doe == z - era * 146097
      yoe == (doe - doe \div 1460 + doe \div 36524 - doe \div 146096) \div 365
      doy == doe - (365 * yoe + yoe \div 4 - yoe \div 100)
      mp == (5 * doy + 2) \div 153
      d == doy - (153 * mp + 2) \div 5 + 1
      m == IF mp < 10 THEN mp + 3 ELSE mp - 9
      y == yoe + era * 400
  IN <<IF m <= 2 THEN y + 1 ELSE y, m, d>>

IsLeapYear(y) == (y % 4 = 0 /\ y % 100 # 0) \/ y % 400 = 0

DaysInMonth(y, m) ==
  IF m = 2 THEN (IF IsLeapYear(y) THEN 29 ELSE 28)
  ELSE IF m \in {4, 6, 9, 11} THEN 30 ELSE 31

\* DateTime::parse_from_rfc3339 followed by the conversion into DateTime<Utc>,
\* for the forms YYYY-MM-DDTHH:MM:SSZ and YYYY-MM-DDTHH:MM:SS(+|-)HH:MM
\* (fractional seconds and lower-case letters are not part of the model's
\* input universe).  Some(seconds since 1970-01-01T00:00:00Z) or None for a
\* chrono ParseError.
ParseRfc3339(s) ==
  LET num(a, b) == DecVal(SubSeq(s, a, b))
      digitsAt(a, b) == \A i \in a..b : IsDigit(s[i])
      shape ==
        /\ Len(s) \in {20, 25}
        /\ digitsAt(1, 4) /\ s[5] = "-" /\ digitsAt(6, 7) /\ s[8] = "-"
        /\ digitsAt(9, 10) /\ s[11] = "T" /\ digitsAt(12, 13) /\ s[14] = ":"
        /\ digitsAt(15, 16) /\ s[17] = ":" /\ digitsAt(18, 19)
        /\ IF Len(s) = 20 THEN s[20] = "Z"
           ELSE /\ s[20] \in {"+", "-"}
                /\ digitsAt(21, 22) /\ s[23] = ":" /\ digitsAt(24, 25)
      y == num(1, 4)
      mo == num(6, 7)
      d == num(9, 10)
      h == num(12, 13)
      mi == num(15, 16)
      sec == num(18, 19)
      offAbs == IF Len(s) = 20 THEN 0 ELSE num(21, 22) * 3600 + num(24, 25) * 60
      off == IF Len(s) = 25 /\ s[20] = "-" THEN 0 - offAbs ELSE offAbs
      inRange ==
        /\ mo \in 1..12 /\ d \in 1..DaysInMonth(y, mo)
        /\ h <= 23 /\ mi <= 59 /\ sec <= 59
        /\ (Len(s) = 25 => num(21, 22) <= 23 /\ num(24, 25) <= 59)
  IN IF shape /\ inRange
     THEN Some(DaysFromCivil(y, mo, d) * 86400 + h * 3600 + mi * 60 + sec - off)
     ELSE None

\* n as decimal text, zero-padded to w characters
PadText(n, w) ==
  LET t == DecText(n) IN [i \in 1..(w - Len(t)) |-> "0"] \o t

\* RFC 3339 text of a DateTime<Utc> (chrono's serde form, e.g.
\* 1996-12-20T00:39:57Z); t is seconds since the epoch, t >= 0.
UtcText(t) ==
  LET c == CivilFromDays(t \div 86400)
      sod == t % 86400
  IN PadText(c[1], 4) \o <<"-">> \o PadText(c[2], 2) \o <<"-">> \o PadText(c[3], 2)
       \o <<"T">> \o PadText(sod \div 3600, 2) \o <<":">>
       \o PadText((sod % 3600) \div 60, 2) \o <<":">> \o PadText(sod % 60, 2)
       \o <<"Z">>

(***************************************************************************)
(* The six peelers                                                         *)
(***************************************************************************)
\* pub fn peel_ip
peel_ip(line) ==
  LET first_space_idx == unwrap_or(find(line, " "), Len(line))
      rem == trim_start(SliceFrom(line, first_space_idx))
  IN IF Len(line) = 0 THEN PeelPanic
     ELSE IF line[1] = "-" THEN PeelOk(None, rem)
     ELSE LET ip_addr == ParseIpAddr(SliceTo(line, first_space_idx))
          IN IF ip_addr = None THEN PeelErr("IpAddrParse")
             ELSE PeelOk(ip_addr, rem)

\* peel_usize without the test for a leading dash.
peel_usize_no_dash(line) ==
  LET first_space_idx == unwrap_or(find(line, " "), Len(line))
      rem == trim_start(SliceFrom(line, first_space_idx))
  IN IF Len(line) = 0 THEN PeelPanic
     ELSE LET n == ParseUsize(SliceTo(line, first_space_idx))
          IN IF n = None THEN PeelErr("SizeParse") ELSE PeelOk(n, rem)

\* pub fn peel_usize
peel_usize(line) ==
  LET first_space_idx == unwrap_or(find(line, " "), Len(line))
      rem == trim_start(SliceFrom(line, first_space_idx))
  IN IF Len(line) = 0 THEN PeelPanic
     ELSE IF line[1] = "-" THEN PeelOk(None, rem)
     ELSE LET n == ParseUsize(SliceTo(line, first_space_idx))
          IN IF n = None THEN PeelErr("SizeParse") ELSE PeelOk(n, rem)

\* pub fn peel_string
peel_string(line) ==
  LET first_space_idx == unwrap_or(find(line, " "), Len(line))
      rem == trim_start(SliceFrom(line, first_space_idx))
  IN IF Len(line) = 0 THEN PeelPanic
     ELSE IF line[1] = "-" THEN PeelOk(None, rem)
     ELSE PeelOk(Some(SliceTo(line, first_space_idx)), rem)

\* peel_quoted_string that returns the text after the dash as it is, without
\* stripping the whitespace in front of it.
peel_quoted_string_no_trim(line) ==
  IF Len(line) > 0 /\ line[1] = "-" THEN PeelOk(None, SliceFrom(line, 1))
  ELSE IF Len(line) = 0 \/ line[1] # "\"" THEN PeelErr("FieldNotFound")
  ELSE LET rest == SliceFrom(line, 1)
           string_end_idx == find(rest, "\"")
       IN IF string_end_idx = None THEN PeelErr("FieldNotFound")
          ELSE PeelOk(Some(SliceTo(rest, string_end_idx[1])),
                      trim_start(SliceFrom(rest, string_end_idx[1] + 1)))

\* pub fn peel_quoted_string
peel_quoted_string(line) ==
  IF Len(line) > 0 /\ line[1] = "-" THEN PeelOk(None, trim_start(SliceFrom(line, 1)))
  ELSE IF Len(line) = 0 \/ line[1] # "\"" THEN PeelErr("FieldNotFound")
  ELSE LET rest == SliceFrom(line, 1)
           string_end_idx == find(rest, "\"")
       IN IF string_end_idx = None THEN PeelErr("FieldNotFound")
          ELSE PeelOk(Some(SliceTo(rest, string_end_idx[1])),
                      trim_start(SliceFrom(rest, string_end_idx[1] + 1)))

\* pub fn peel_timestamp
peel_timestamp(line) ==
  IF Len(line) > 0 /\ line[1] = "-" THEN PeelOk(None, trim_start(SliceFrom(line, 1)))
  ELSE IF Len(line) = 0 \/ line[1] # "[" THEN PeelErr("FieldNotFound")
  ELSE LET time_end_idx == find(line, "]")
       IN IF time_end_idx = None THEN PeelErr("FieldNotFound")
          ELSE LET dt == ParseRfc3339(Slice(line, 1, time_end_idx[1]))
               IN IF dt = None THEN PeelErr("DateTimeParse")
                  ELSE PeelOk(dt, trim_start(SliceFrom(line, time_end_idx[1] + 1)))

\* pub fn peel_status_code
peel_status_code(line) ==
  LET first_space_idx == unwrap_or(find(line, " "), Len(line))
      rem == trim_start(SliceFrom(line, first_space_idx))
  IN IF Len(line) = 0 THEN PeelPanic
     ELSE IF line[1] = "-" THEN PeelOk(None, rem)
     ELSE LET sc == ParseStatusCode(SliceTo(line, first_space_idx))
          IN IF sc = None THEN PeelErr("StatusCodeParse") ELSE PeelOk(sc, rem)

(***************************************************************************)
(* LogEntry and its FromStr implementation                                 *)
(***************************************************************************)
\* struct LogEntry
LogEntry(host, ident, authuser, time, request_line, status_code, object_size) ==
  [host |-> host, ident |-> ident, authuser |-> authuser, time |-> time,
   request_line |-> request_line, status_code |-> status_code,
   object_size |-> object_size]

\* One peeler invocation, recorded in the order the invocations happen.
Call(p, input) == [peeler |-> p, input |-> input]

\* Ok(LogEntry): calls is the history of peeler invocations of this parse.
ParseOk(e, calls) == [kind |-> "ok", entry |-> Some(e), err |-> "none", calls |-> calls]

\* A `?` that maps every peeler error to FieldNotFound instead of returning
\* it as it is.
ParseFail_generic(r, calls) ==
  [kind |-> r.kind, entry |-> None,
   err |-> IF r.kind = "err" THEN "FieldNotFound" ELSE r.err, calls |-> calls]

\* The `?` operator on a failed peeler result r: the error (or the abort) of r
\* leaves from_str at once.
ParseFail(r, calls) == [kind |-> r.kind, entry |-> None, err |-> r.err, calls |-> calls]

\* Result of a parse that has not been run.
NoParse == [kind |-> "none", entry |-> None, err |-> "none", calls |-> << >>]

\* <LogEntry as FromStr>::from_str
from_str(s) ==
  LET r1 == peel_ip(s)
      c1 == <<Call("peel_ip", s)>>
  IN IF r1.kind # "ok" THEN ParseFail(r1, c1) ELSE
  LET r2 == peel_string(r1.rem)
      c2 == Append(c1, Call("peel_string", r1.rem))
  IN IF r2.kind # "ok" THEN ParseFail(r2, c2) ELSE
  LET r3 == peel_string(r2.rem)
      c3 == Append(c2, Call("peel_string", r2.rem))
  IN IF r3.kind # "ok" THEN ParseFail(r3, c3) ELSE
  LET r4 == peel_timestamp(r3.rem)
      c4 == Append(c3, Call("peel_timestamp", r3.rem))
  IN IF r4.kind # "ok" THEN ParseFail(r4, c4) ELSE
  LET r5 == peel_quoted_string(r4.rem)
      c5 == Append(c4, Call("peel_quoted_string", r4.rem))
  IN IF r5.kind # "ok" THEN ParseFail(r5, c5) ELSE
  LET r6 == peel_status_code(r5.rem)
      c6 == Append(c5, Call("peel_status_code", r5.rem))
  IN IF r6.kind # "ok" THEN ParseFail(r6, c6) ELSE
  LET r7 == peel_usize(r6.rem)
      c7 == Append(c6, Call("peel_usize", r6.rem))
  IN IF r7.kind # "ok" THEN ParseFail(r7, c7) ELSE
  ParseOk(LogEntry(r1.val, r2.val, r3.val, r4.val, r5.val, r6.val, r7.val), c7)

(***************************************************************************)
(* Interchange form (serde)                                                *)
(***************************************************************************)
\* StatusCode::as_u16
as_u16(sc) == sc

\* serialize_status_code that writes null for every status code.
serialize_status_code_null(sc) == None

\* fn serialize_status_code: the code as a plain integer, or null.
serialize_status_code(sc) == IF sc = None THEN None ELSE Some(as_u16(sc[1]))

\* u16::MAX
U16Max == 65535

\* <Option<u16> as Deserialize>::deserialize on null or an integer: an
\* integer that is not a u16 is a deserialization error.
DeserializeOptionU16(v) ==
  IF v = None THEN [kind |-> "ok", val |-> None]
  ELSE IF v[1] >= 0 /\ v[1] <= U16Max THEN [kind |-> "ok", val |-> v]
  ELSE [kind |-> "err", val |-> None]

\* deserialize_status_code that hands the InvalidStatusCode of from_u16 on
\* as a deserialization error.
deserialize_status_code_strict(v) ==
  LET o == DeserializeOptionU16(v)
  IN IF o.kind = "err" THEN o
     ELSE IF o.val = None THEN [kind |-> "ok", val |-> None]
     ELSE IF StatusCodeFromU16(o.val[1]) = None THEN [kind |-> "err", val |-> None]
     ELSE [kind |-> "ok", val |-> StatusCodeFromU16(o.val[1])]

\* fn deserialize_status_code
deserialize_status_code(v) ==
  LET o == DeserializeOptionU16(v)
  IN IF o.kind = "err" THEN o
     ELSE IF o.val = None THEN [kind |-> "ok", val |-> None]
     ELSE [kind |-> "ok", val |-> StatusCodeFromU16(o.val[1])]

\* derive(Serialize) for LogEntry: the address and the timestamp as their
\* texts, the strings as they are, the size as an integer, the status code
\* through serialize_status_code.
Serialize(e) ==
  [host |-> IF e.host = None THEN None ELSE Some(IpText(e.host[1])),
   ident |-> e.ident, authuser |-> e.authuser,
   time |-> IF e.time = None THEN None ELSE Some(UtcText(e.time[1])),
   request_line |-> e.request_line,
   status_code |-> serialize_status_code(e.status_code),
   object_size |-> e.object_size]

\* derive(Deserialize) for LogEntry: the address and the timestamp are read
\* back from their texts, the status code through deserialize_status_code.
\* Some(entry), or None for a deserialization error.
Deserialize(d) ==
  LET host == IF d.host = None THEN None ELSE ParseIpAddr(d.host[1])
      hostOk == d.host = None \/ host # None
      time == IF d.time = None THEN None ELSE ParseRfc3339(d.time[1])
      timeOk == d.time = None \/ time # None
      sc == deserialize_status_code(d.status_code)
      sizeOk == d.object_size = None \/ d.object_size[1] >= 0
  IN IF hostOk /\ timeOk /\ sc.kind = "ok" /\ sizeOk
     THEN Some(LogEntry(host, d.ident, d.authuser, time, d.request_line,
                        sc.val, d.object_size))
     ELSE None

(***************************************************************************)
(* Inputs                                                                  *)
(***************************************************************************)
\* Largest number of places (fields and separators) in which an input line
\* differs from the documented example line.
MaxDeviations == 2

\* Largest length of the text appended after the size field.
MaxTailLen == 2

\* Largest length of the short texts handed to a single peeler.
MaxPeelLen == 3

\* The timestamp of the documented example and the same instant in UTC.
ExampleTime == <<"1", "9", "9", "6", "-", "1", "2", "-", "1", "9", "T", "1", "6", ":", "3", "9", ":", "5", "7", "-", "0", "8", ":", "0", "0">>

ExampleTimeUtc == <<"1", "9", "9", "6", "-", "1", "2", "-", "2", "0", "T", "0", "0", ":", "3", "9", ":", "5", "7", "Z">>

\* Texts a line may carry in each of the seven field positions; the first
\* one of each position is the text of the documented example
\* (user-identifier and frank are shortened).
FieldTexts ==
  << <<<<"1", "2", "7", ".", "0", ".", "0", ".", "1">>, <<"-">>, <<"9", "9", "9", ".", "0", ".", "0", ".", "1">>>>,
     <<<<"u", "-", "i">>, <<"-">>, <<"-", "u">>>>,
     <<<<"f", "r">>, <<"-">>>>,
     << <<"[">> \o ExampleTime \o <<"]">>, <<"-">>,
        <<"[">> \o ExampleTimeUtc \o <<"]">>, <<"[">> \o ExampleTime,
        <<"[", "1", "9", "/", "D", "e", "c", "]">> >>,
     <<<<"\"", "G", "E", "T", " ", "/", "a", "\"">>, <<"-">>, <<"\"", "G", "]", "\"">>, <<"G", "E", "T">>, <<"\"", "G", "E", "T">>>>,
     <<<<"2", "0", "0">>, <<"-">>, <<"9", "9", "9">>, <<"9", "9">>>>,
     <<<<"2", "3", "2", "6">>, <<"-">>, <<"+", "7">>, <<"-", "5">>, <<"2", "k">>>> >>

\* Texts that may separate two neighbouring fields; the first one is the
\* single space of the documented example.
SeparatorTexts == <<<<" ">>, <<"\t">>, <<" ", " ">>, <<>>>>

NumFields == 7

\* Places of a line: 1..7 are the fields, 8..13 the separators after the
\* fields 1..6.
Places == 1..(2 * NumFields - 1)

PlaceTexts(p) == IF p <= NumFields THEN FieldTexts[p] ELSE SeparatorTexts

\* A line shape gives the index of the text used in every place.
Shapes ==
  UNION { { [p \in Places |-> IF p \in D THEN alt[p] ELSE 1] :
              alt \in { a \in [D -> 2..5] : \A p \in D : a[p] <= Len(PlaceTexts(p)) } } :
          D \in { D \in SUBSET Places : Cardinality(D) <= MaxDeviations } }

RECURSIVE JoinFields(_, _)
\* The first k fields of a shape, with the separators between them.
JoinFields(sh, k) ==
  IF k = 0 THEN << >>
  ELSE IF k = 1 THEN FieldTexts[1][sh[1]]
  ELSE JoinFields(sh, k - 1) \o SeparatorTexts[sh[NumFields + k - 1]]
         \o FieldTexts[k][sh[k]]

\* Input lines: every shape, complete or cut off after k fields.
Lines == { JoinFields(sh, k) : sh \in Shapes, k \in 0..NumFields }

\* Characters of the short texts handed to a single peeler.
PeelChars == {"-", " ", "\t", "a", "5", "\"", "[", "]"}

PeelTexts == UNION { [1..n -> PeelChars] : n \in 0..MaxPeelLen }

\* Characters of the text appended after the size field.
TailChars == {"x", " ", "7"}

Tails == UNION { [1..n -> TailChars] : n \in 0..MaxTailLen }

\* Whitespace put between a line and the text appended to it.
TailGaps == {<<" ">>, <<"\t">>, <<" ", " ">>}

\* Integers the status_code member of an interchange document may carry.
StatusIntegers == {0 - 1, 0, 99, 100, 200, 599, 600, 999, 1000, 65535, 65536}

\* Lines whose records are the base of the interchange documents received
\* from outside.
DocLines == { JoinFields(sh, NumFields) :
                sh \in { sh \in Shapes : \A p \in Places : sh[p] # 1 => p \in {1, 4} } }

\* Interchange documents received from outside: a serialized record whose
\* status_code member is null or any of StatusIntegers.
ForeignDocs ==
  { [Serialize(from_str(l).entry[1]) EXCEPT !.status_code = sc] :
      l \in { l \in DocLines : from_str(l).kind = "ok" },
      sc \in {None} \cup { Some(n) : n \in StatusIntegers } }

(***************************************************************************)
(* State: one caller of the library                                        *)
(***************************************************************************)
VARIABLES
  line,     \* the text the caller holds
  op,       \* the last operation: "line" and "doc" are the two initial ones
  outcome,  \* result of the last from_str call
  prev,     \* the record parsed before the line was edited and parsed again
  field,    \* the field position last replaced by a dash, 0 if none
  doc,      \* Option: the interchange document the caller holds
  de,       \* result of the last deserialization
  peeler,   \* name of the peeler last called on its own
  pres      \* its result

vars == <<line, op, outcome, prev, field, doc, de, peeler, pres>>

\* The six public peelers, in the order from_str uses them.
PeelerOrder ==
  <<"peel_ip", "peel_string", "peel_string", "peel_timestamp",
    "peel_quoted_string", "peel_status_code", "peel_usize">>

PeelerNames == { PeelerOrder[i] : i \in 1..NumFields }

\* Call of a public peeler by name.
ApplyPeeler(p, input) ==
  CASE p = "peel_ip" -> peel_ip(input)
    [] p = "peel_string" -> peel_string(input)
    [] p = "peel_timestamp" -> peel_timestamp(input)
    [] p = "peel_quoted_string" -> peel_quoted_string(input)
    [] p = "peel_status_code" -> peel_status_code(input)
    [] p = "peel_usize" -> peel_usize(input)

NoPeel == [kind |-> "none", val |-> None, rem |-> << >>, err |-> "none"]

NoDe == [kind |-> "none", entry |-> None]

\* Length of the source text of field f at the start of rem, the remainder
\* the peeler of field f was given in a successful parse: the token up to
\* the first space; for the timestamp and the request line the bracketed or
\* quoted text with its delimiters, or the dash alone.
FieldTextLen(f, rem) ==
  IF f = 4 THEN (IF rem[1] = "-" THEN 1 ELSE find(rem, "]")[1] + 1)
  ELSE IF f = 5 THEN (IF rem[1] = "-" THEN 1 ELSE find(Tail(rem), "\"")[1] + 2)
  ELSE unwrap_or(find(rem, " "), Len(rem))

\* The line l with the source text of field f replaced by a dash; calls is
\* the invocation history of the successful parse of l.
WithDash(l, calls, f) ==
  LET rem == calls[f].input
      start == Len(l) - Len(rem)
  IN SliceTo(l, start) \o <<"-">> \o SliceFrom(l, start + FieldTextLen(f, rem))

Init ==
  /\ \/ /\ line \in Lines \cup PeelTexts
        /\ doc = None
        /\ op = "line"
     \/ /\ line = << >>
        /\ doc \in { Some(d) : d \in ForeignDocs }
        /\ op = "doc"
  /\ outcome = NoParse
  /\ prev = None
  /\ field = 0
  /\ de = NoDe
  /\ peeler = "none"
  /\ pres = NoPeel

\* line.parse::<LogEntry>()
Parse ==
  /\ op = "line"
  /\ outcome' = from_str(line)
  /\ op' = "parsed"
  /\ UNCHANGED <<line, prev, field, doc, de, peeler, pres>>

\* A direct call of one of the public peelers on the text.
Peel(p) ==
  /\ op = "line"
  /\ peeler' = p
  /\ pres' = ApplyPeeler(p, line)
  /\ op' = "peeled"
  /\ UNCHANGED <<line, outcome, prev, field, doc, de>>

\* The caller replaces field f of a parsed line by a dash and parses again.
SubstituteDash(f) ==
  /\ op = "parsed"
  /\ outcome.kind = "ok"
  /\ prev' = outcome.entry
  /\ field' = f
  /\ line' = WithDash(line, outcome.calls, f)
  /\ outcome' = from_str(line')
  /\ op' = "substituted"
  /\ UNCHANGED <<doc, de, peeler, pres>>

\* The caller appends whitespace and a text to a parsed line and parses again.
AppendTail(gap, t) ==
  /\ op = "parsed"
  /\ outcome.kind = "ok"
  /\ prev' = outcome.entry
  /\ line' = line \o gap \o t
  /\ outcome' = from_str(line')
  /\ op' = "appended"
  /\ UNCHANGED <<field, doc, de, peeler, pres>>

\* serde: the parsed record to its interchange form.
SerializeEntry ==
  /\ op = "parsed"
  /\ outcome.kind = "ok"
  /\ doc' = Some(Serialize(outcome.entry[1]))
  /\ op' = "serialized"
  /\ UNCHANGED <<line, outcome, prev, field, de, peeler, pres>>

\* serde: the interchange document the caller holds back to a record.
DeserializeDoc ==
  /\ op \in {"doc", "serialized"}
  /\ LET e == Deserialize(doc[1])
     IN de' = [kind |-> IF e = None THEN "err" ELSE "ok", entry |-> e]
  /\ op' = "deserialized"
  /\ UNCHANGED <<line, outcome, prev, field, doc, peeler, pres>>

Next ==
  \/ Parse
  \/ \E p \in PeelerNames : Peel(p)
  \/ \E f \in 1..NumFields : SubstituteDash(f)
  \/ \E gap \in TailGaps, t \in Tails : AppendTail(gap, t)
  \/ SerializeEntry
  \/ DeserializeDoc

Spec == Init /\ [][Next]_vars

(***************************************************************************)
(* Properties                                                              *)
(***************************************************************************)
Parsed == outcome.kind # "none"

\* Names of the fields of LogEntry by position.
FieldNames ==
  <<"host", "ident", "authuser", "time", "request_line", "status_code",
    "object_size">>

\* Offset of the first whitespace character of t, or its length.
FirstWhitespace(t) ==
  IF \E i \in 1..Len(t) : IsWhitespace(t[i])
  THEN (CHOOSE i \in 1..Len(t) :
          IsWhitespace(t[i]) /\ \A j \in 1..(i - 1) : ~IsWhitespace(t[j])) - 1
  ELSE Len(t)

\* C1: every parse ends with a complete LogEntry or with exactly one error of
\* the five kinds; it never aborts and never yields a partial record.
C1_ParseIsTotal ==
  Parsed =>
    \/ outcome.kind = "ok" /\ outcome.entry # None
    \/ outcome.kind = "err" /\ outcome.err \in LogEntryParseError /\ outcome.entry = None

\* C2: replacing the source text of any field of a successfully parsed line
\* by a dash gives a line that parses to the same record with that field
\* absent and the six other fields unchanged.
C2_DashMakesFieldAbsent ==
  op = "substituted" =>
    /\ outcome.kind = "ok"
    /\ outcome.entry = Some([prev[1] EXCEPT ![FieldNames[field]] = None])

C2_Witness ==
  /\ op = "substituted"
  /\ field = 5
  /\ prev[1].request_line # None
  /\ outcome.kind = "ok"
  /\ outcome.entry[1].request_line = None
  /\ outcome.entry[1].time # None

\* C3: a record returned by a successful parse, serialized to the interchange
\* form and deserialized again, is the same record; the status code is
\* preserved whether it is present or absent.
C3_SerdeRoundTrip ==
  (op = "deserialized" /\ outcome.kind = "ok") =>
    /\ de.kind = "ok"
    /\ de.entry = outcome.entry

C3_Witness ==
  /\ op = "deserialized"
  /\ outcome.kind = "ok"
  /\ outcome.entry[1].status_code = Some(999)
  /\ outcome.entry[1].time # None
  /\ de.entry = outcome.entry

\* C4: a parse runs the peelers in the fixed order, each on the remainder
\* returned by the one before it; it stops at the first peeler that fails,
\* runs no later peeler, and returns exactly the error of that peeler.
C4_FirstFailureReturned ==
  Parsed =>
    LET calls == outcome.calls
        n == Len(calls)
        res(i) == ApplyPeeler(PeelerOrder[i], calls[i].input)
    IN /\ n \in 1..NumFields
       /\ \A i \in 1..n : calls[i].peeler = PeelerOrder[i]
       /\ calls[1].input = line
       /\ \A i \in 2..n : res(i - 1).kind = "ok" /\ calls[i].input = res(i - 1).rem
       /\ IF res(n).kind = "ok"
          THEN n = NumFields /\ outcome.kind = "ok"
          ELSE /\ outcome.kind = res(n).kind
               /\ outcome.err = res(n).err
               /\ outcome.entry = None

\* A line whose host and size are both malformed reports the host's error.
C4_Witness ==
  /\ op = "parsed"
  /\ Len(line) > 0
  /\ line[Len(line)] = "k"
  /\ Len(outcome.calls) = 1
  /\ outcome.kind = "err"
  /\ outcome.err = "IpAddrParse"

\* C5: whitespace and any text appended to a successfully parsed line do not
\* change the result: the longer line parses to the same record.
C5_TrailingTextIgnored ==
  op = "appended" => (outcome.kind = "ok" /\ outcome.entry = prev)

\* The timestamp field of t opens with a bracket and is not closed: there is
\* no closing bracket before the whitespace that ends the field.
UnclosedTimestamp(t) ==
  /\ Len(t) > 0
  /\ t[1] = "["
  /\ \A i \in 1..FirstWhitespace(t) : t[i] # "]"

\* C6: a timestamp field that opens with a bracket and has no closing bracket
\* fails with FieldNotFound, in peel_timestamp and in a parse whose first
\* three fields are valid, whatever follows the field on the line.
C6_UnclosedTimestampNotFound ==
  /\ (op = "peeled" /\ peeler = "peel_timestamp" /\ UnclosedTimestamp(line)) =>
       (pres.kind = "err" /\ pres.err = "FieldNotFound")
  /\ (Parsed /\ Len(outcome.calls) >= 4 /\ UnclosedTimestamp(outcome.calls[4].input)) =>
       (outcome.kind = "err" /\ outcome.err = "FieldNotFound")

ValidStatus(n) == n >= MinStatusCode /\ n <= MaxStatusCode

C8_DashIsAbsent ==
  (op = "peeled" /\ Len(line) > 0 /\ line[1] = "-") =>
    /\ pres.kind = "ok"
    /\ pres.val = None
    /\ (pres.rem = << >> \/ ~IsWhitespace(pres.rem[1]))

C8_Witness ==
  /\ op = "peeled"
  /\ peeler = "peel_usize"
  /\ line = <<"-", "5">>
  /\ pres.kind = "ok"
  /\ pres.val = None

\* C9: peel_ip, peel_string, peel_usize and peel_status_code bound the field
\* by the first whitespace character of any kind or by the end of the input:
\* the value is parsed from exactly the characters before it.
C9_FieldEndsAtWhitespace ==
  (op = "peeled" /\ Len(line) > 0 /\ line[1] # "-"
     /\ peeler \in {"peel_ip", "peel_string", "peel_usize", "peel_status_code"}) =>
    LET tok == SliceTo(line, FirstWhitespace(line))
        val == CASE peeler = "peel_ip" -> ParseIpAddr(tok)
                 [] peeler = "peel_string" -> Some(tok)
                 [] peeler = "peel_usize" -> ParseUsize(tok)
                 [] peeler = "peel_status_code" -> ParseStatusCode(tok)
    IN IF val = None THEN pres.kind = "err"
       ELSE /\ pres.kind = "ok"
            /\ pres.val = val
            /\ pres.rem = trim_start(SliceFrom(line, FirstWhitespace(line)))

\* C10: all six peelers return the same remainder for a text that starts
\* with a dash: the text without its first space-delimited token and without
\* the whitespace after that token.
C10_DashTokenConsumed ==
  (op = "peeled" /\ Len(line) > 0 /\ line[1] = "-") =>
    /\ pres.kind = "ok"
    /\ pres.rem = trim_start(SliceFrom(line, unwrap_or(find(line, " "), Len(line))))

====
